---- MODULE Spec2Model ----
(***************************************************************************)
(* silentscan: the scan-and-report pipeline (scanner.py, report.py), the   *)
(* `scan` command of cli.py that drives it, and read_report/collect_files  *)
(* as the clean workflow uses them.                                        *)
(*                                                                         *)
(* Text is a sequence of characters, each a one-character string.  A JSON  *)
(* key or literal that holds no character needing an escape ("sessions",   *)
(* null) is carried as one element of the sequence.                        *)
(***************************************************************************)
EXTENDS Integers, Sequences, FiniteSets, TLC

(***************************************************************************)
(* Characters and strings                                                  *)
(***************************************************************************)

\* The characters of the model in code-point order (Python compares str by
\* code point).
CharTable ==
    << "\n", " ", "\"", "-", ".", "/", "0", "1", "2", "3", "4", "5", "6", "7",
       "8", "9", ":", "A", "F", "I", "N", "V", "W", "Y", "[", "\\", "]",
       "a", "b", "c", "e", "f", "i", "k", "n", "o", "r", "s", "t", "v", "w",
       "x", "y", "{", "}" >>

Ord(c) == CHOOSE i \in 1..Len(CharTable) : CharTable[i] = c

\* a < b for Python str: lexicographic by code point, a proper prefix first.
RECURSIVE StrLess(_, _)
StrLess(a, b) ==
    IF b = <<>> THEN FALSE
    ELSE IF a = <<>> THEN TRUE
    ELSE IF a[1] = b[1] THEN StrLess(Tail(a), Tail(b))
    ELSE Ord(a[1]) < Ord(b[1])

\* str.lower() on the characters of the model.
LowerChar(c) ==
    CASE c = "A" -> "a" [] c = "F" -> "f" [] c = "I" -> "i"
      [] c = "N" -> "n" [] c = "V" -> "v" [] c = "W" -> "w"
      [] c = "Y" -> "y" [] OTHER -> c

Lower(s) == [i \in 1..Len(s) |-> LowerChar(s[i])]

\* The largest i with s[i] = c, 0 when there is none (str.rfind, 1-based).
LastIndexOf(s, c) ==
    LET hits == {i \in 1..Len(s) : s[i] = c}
    IN  IF hits = {} THEN 0 ELSE CHOOSE i \in hits : \A j \in hits : j <= i

(***************************************************************************)
(* pathlib (POSIX flavour) on normalised paths                             *)
(***************************************************************************)

\* Path(dirpath) / filename, as str.
JoinPath(dir, name) ==
    IF dir = <<"/">> THEN dir \o name ELSE dir \o <<"/">> \o name

\* str(Path(p).parent)
PathParent(p) ==
    LET n == LastIndexOf(p, "/")
    IN  IF n = 0 THEN <<".">>
        ELSE IF n = 1 THEN <<"/">>
        ELSE SubSeq(p, 1, n - 1)

\* Path(p).name
PathName(p) == SubSeq(p, LastIndexOf(p, "/") + 1, Len(p))

\* Path(filename).suffix: from the last dot, unless the name starts or ends
\* with it.
PathSuffix(name) ==
    LET i == LastIndexOf(name, ".")
    IN  IF i <= 1 \/ i = Len(name) THEN <<>> ELSE SubSeq(name, i, Len(name))

SUPPORTED_EXTENSIONS ==
    { <<".", "w", "a", "v">>, <<".", "a", "i", "f", "f">>, <<".", "a", "i", "f">> }

IsCandidateName(name) == Lower(PathSuffix(name)) \in SUPPORTED_EXTENSIONS

(***************************************************************************)
(* Python values that reach the JSON encoder: <<tag, payload>>.            *)
(*   <<"none">>, <<"int", n>>, <<"float", m, d>> (m * 10^-d, d >= 1, as    *)
(*   repr prints it), <<"str", s>>, <<"list", items>>, <<"dict", pairs>>   *)
(*   with pairs a sequence of <<key, value>> in insertion order; json.load *)
(*   may also return <<"bool", b>>.                                        *)
(***************************************************************************)

PyNone == <<"none">>
PyInt(n) == <<"int", n>>
PyFloat(m, d) == <<"float", m, d>>
PyStr(s) == <<"str", s>>
PyList(items) == <<"list", items>>
PyDict(pairs) == <<"dict", pairs>>

Tag(v) == v[1]

\* key in d
HasKey(d, k) == \E i \in 1..Len(d[2]) : d[2][i][1] = k

\* d[key]; a missing key is a KeyError (HasKey is the caller's guard).
Get(d, k) ==
    LET i == CHOOSE j \in 1..Len(d[2]) : d[2][j][1] = k
    IN  d[2][i][2]

\* d[key] = value on the pair list: replace in place or append.
DictSet(pairs, k, v) ==
    IF \E i \in 1..Len(pairs) : pairs[i][1] = k
    THEN [i \in 1..Len(pairs) |-> IF pairs[i][1] = k THEN <<k, v>> ELSE pairs[i]]
    ELSE Append(pairs, <<k, v>>)

(***************************************************************************)
(* json.dump(report, f, indent=2)                                          *)
(***************************************************************************)

DigitChars == <<"0", "1", "2", "3", "4", "5", "6", "7", "8", "9">>

\* str(n) for n >= 0
RECURSIVE Digits(_)
Digits(n) ==
    IF n < 10 THEN <<DigitChars[n + 1]>>
    ELSE Append(Digits(n \div 10), DigitChars[(n % 10) + 1])

\* n >= 0 in exactly w digits, zero-padded on the left.
RECURSIVE PadDigits(_, _)
PadDigits(n, w) ==
    IF w = 0 THEN <<>>
    ELSE Append(PadDigits(n \div 10, w - 1), DigitChars[(n % 10) + 1])

Abs(n) == IF n < 0 THEN -n ELSE n

\* int.__repr__
IntRepr(n) == IF n < 0 THEN <<"-">> \o Digits(-n) ELSE Digits(n)

\* float.__repr__ of m * 10^-d: always a fractional part.
FloatRepr(m, d) ==
    (IF m < 0 THEN <<"-">> ELSE <<>>)
        \o Digits(Abs(m) \div (10 ^ d)) \o <<".">> \o PadDigits(Abs(m) % (10 ^ d), d)

EscapeCharQuoteOnly(c) ==
    CASE c = "\"" -> <<"\\", "\"">>
      [] c = "\n" -> <<"\\", "n">>
      [] OTHER -> <<c>>

\* py_encode_basestring_ascii, without the quotes.
EscapeChar(c) ==
    CASE c = "\"" -> <<"\\", "\"">>
      [] c = "\\" -> <<"\\", "\\">>
      [] c = "\n" -> <<"\\", "n">>
      [] OTHER -> <<c>>

RECURSIVE EscapeStr(_)
EscapeStr(s) ==
    IF s = <<>> THEN <<>> ELSE EscapeChar(s[1]) \o EscapeStr(Tail(s))

EncodeStr(s) == <<"\"">> \o EscapeStr(s) \o <<"\"">>

RECURSIVE Spaces(_)
Spaces(n) == IF n = 0 THEN <<>> ELSE Append(Spaces(n - 1), " ")

\* The newline and indentation json writes before an item at nesting `level`.
NewlineIndent(level) == <<"\n">> \o Spaces(2 * level)

RECURSIVE Encode(_, _)
RECURSIVE EncodeItems(_, _, _)
RECURSIVE EncodePairs(_, _, _)

\* _make_iterencode: one value at nesting `level`.
Encode(v, level) ==
    CASE Tag(v) = "none"  -> <<"null">>
      [] Tag(v) = "int"   -> IntRepr(v[2])
      [] Tag(v) = "float" -> FloatRepr(v[2], v[3])
      [] Tag(v) = "str"   -> EncodeStr(v[2])
      [] Tag(v) = "list"  ->
            IF v[2] = <<>> THEN <<"[", "]">>
            ELSE <<"[">> \o EncodeItems(v[2], 1, level + 1)
                    \o NewlineIndent(level) \o <<"]">>
      [] Tag(v) = "dict"  ->
            IF v[2] = <<>> THEN <<"{", "}">>
            ELSE <<"{">> \o EncodePairs(v[2], 1, level + 1)
                    \o NewlineIndent(level) \o <<"}">>

EncodeItems(items, i, level) ==
    IF i > Len(items) THEN <<>>
    ELSE (IF i > 1 THEN <<",">> ELSE <<>>) \o NewlineIndent(level)
            \o Encode(items[i], level) \o EncodeItems(items, i + 1, level)

EncodePairs(pairs, i, level) ==
    IF i > Len(pairs) THEN <<>>
    ELSE (IF i > 1 THEN <<",">> ELSE <<>>) \o NewlineIndent(level)
            \o EncodeStr(pairs[i][1]) \o <<":", " ">>
            \o Encode(pairs[i][2], level) \o EncodePairs(pairs, i + 1, level)

\* The text json.dump(v, f, indent=2) writes.
JsonDump(v) == Encode(v, 0)

(***************************************************************************)
(* json.load(f): a parse result is [ok, val, pos]; ok = FALSE is the       *)
(* JSONDecodeError json raises.                                            *)
(***************************************************************************)

Ok(v, p) == [ok |-> TRUE, val |-> v, pos |-> p]
Fail == [ok |-> FALSE]

IsDigit(c) == \E i \in 1..10 : DigitChars[i] = c
DigitVal(c) == (CHOOSE i \in 1..10 : DigitChars[i] = c) - 1
IsWs(c) == c \in {" ", "\n"}

\* WHITESPACE.match(s, i).end()
RECURSIVE SkipWs(_, _)
SkipWs(t, i) == IF i <= Len(t) /\ IsWs(t[i]) THEN SkipWs(t, i + 1) ELSE i

\* The end of the run of digits that starts at i.
RECURSIVE DigitsEnd(_, _)
DigitsEnd(t, i) == IF i <= Len(t) /\ IsDigit(t[i]) THEN DigitsEnd(t, i + 1) ELSE i

\* int(t[i:j]) for a run of digits.
RECURSIVE DigitsValue(_, _, _)
DigitsValue(t, i, j) ==
    IF i >= j THEN 0 ELSE DigitsValue(t, i, j - 1) * 10 + DigitVal(t[j - 1])

\* float(...) gives back the shortest repr: trailing zeros of the fraction
\* go, down to one digit.
RECURSIVE NormFloat(_, _)
NormFloat(m, d) ==
    IF d > 1 /\ m % 10 = 0 THEN NormFloat(m \div 10, d - 1) ELSE PyFloat(m, d)

\* NUMBER_RE at i: -?(0|[1-9]\d*)(\.\d+)?  An int without a fraction, a
\* float with one.
ParseNumber(t, i) ==
    LET neg  == t[i] = "-"
        i0   == IF neg THEN i + 1 ELSE i
        i1   == IF i0 <= Len(t) /\ t[i0] = "0" THEN i0 + 1 ELSE DigitsEnd(t, i0)
        frac == i1 + 1 <= Len(t) /\ t[i1] = "." /\ IsDigit(t[i1 + 1])
        i2   == IF frac THEN DigitsEnd(t, i1 + 1) ELSE i1
        ip   == DigitsValue(t, i0, i1)
        sg   == IF neg THEN -1 ELSE 1
    IN  IF i1 = i0 THEN Fail
        ELSE IF frac
             THEN LET d == i2 - (i1 + 1)
                      m == ip * (10 ^ d) + DigitsValue(t, i1 + 1, i2)
                  IN  Ok(NormFloat(sg * m, d), i2)
             ELSE Ok(PyInt(sg * ip), i2)

\* py_scanstring, strict: from the character after the opening quote.
RECURSIVE ParseStrBody(_, _, _)
ParseStrBody(t, i, acc) ==
    IF i > Len(t) THEN Fail
    ELSE IF t[i] = "\"" THEN Ok(acc, i + 1)
    ELSE IF t[i] = "\n" THEN Fail
    ELSE IF t[i] = "\\"
         THEN IF i + 1 > Len(t) THEN Fail
              ELSE CASE t[i + 1] = "\"" -> ParseStrBody(t, i + 2, Append(acc, "\""))
                     [] t[i + 1] = "\\" -> ParseStrBody(t, i + 2, Append(acc, "\\"))
                     [] t[i + 1] = "/"  -> ParseStrBody(t, i + 2, Append(acc, "/"))
                     [] t[i + 1] = "n"  -> ParseStrBody(t, i + 2, Append(acc, "\n"))
                     [] OTHER -> Fail
    ELSE ParseStrBody(t, i + 1, Append(acc, t[i]))

RECURSIVE ParseValue(_, _)
RECURSIVE ParseArrayItems(_, _, _)
RECURSIVE ParseObjectPairs(_, _, _)

\* scan_once
ParseValue(t, i) ==
    IF i > Len(t) THEN Fail
    ELSE CASE t[i] = "\"" ->
                LET r == ParseStrBody(t, i + 1, <<>>)
                IN  IF r.ok THEN Ok(PyStr(r.val), r.pos) ELSE Fail
           [] t[i] = "{" ->
                LET j == SkipWs(t, i + 1)
                IN  IF j <= Len(t) /\ t[j] = "}" THEN Ok(PyDict(<<>>), j + 1)
                    ELSE ParseObjectPairs(t, j, <<>>)
           [] t[i] = "[" ->
                LET j == SkipWs(t, i + 1)
                IN  IF j <= Len(t) /\ t[j] = "]" THEN Ok(PyList(<<>>), j + 1)
                    ELSE ParseArrayItems(t, j, <<>>)
           [] t[i] = "null" -> Ok(PyNone, i + 1)
           [] t[i] = "true" -> Ok(<<"bool", TRUE>>, i + 1)
           [] t[i] = "false" -> Ok(<<"bool", FALSE>>, i + 1)
           [] t[i] = "-" \/ IsDigit(t[i]) -> ParseNumber(t, i)
           [] OTHER -> Fail

\* JSONArray: i is at the next item.
ParseArrayItems(t, i, acc) ==
    LET r == ParseValue(t, i)
    IN  IF ~r.ok THEN Fail
        ELSE LET j == SkipWs(t, r.pos)
             IN  IF j > Len(t) THEN Fail
                 ELSE IF t[j] = "]" THEN Ok(PyList(Append(acc, r.val)), j + 1)
                 ELSE IF t[j] = ","
                      THEN ParseArrayItems(t, SkipWs(t, j + 1), Append(acc, r.val))
                 ELSE Fail

\* JSONObject: i is at the quote that opens the next key.
ParseObjectPairs(t, i, acc) ==
    IF i > Len(t) \/ t[i] # "\"" THEN Fail
    ELSE LET k == ParseStrBody(t, i + 1, <<>>)
         IN  IF ~k.ok THEN Fail
             ELSE LET c == SkipWs(t, k.pos)
                  IN  IF c > Len(t) \/ t[c] # ":" THEN Fail
                      ELSE LET r == ParseValue(t, SkipWs(t, c + 1))
                           IN  IF ~r.ok THEN Fail
                               ELSE LET j  == SkipWs(t, r.pos)
                                        nx == DictSet(acc, k.val, r.val)
                                    IN  IF j > Len(t) THEN Fail
                                        ELSE IF t[j] = "}" THEN Ok(PyDict(nx), j + 1)
                                        ELSE IF t[j] = ","
                                             THEN ParseObjectPairs(t, SkipWs(t, j + 1), nx)
                                        ELSE Fail

\* JSONDecoder.decode: one value, whitespace around it, nothing after it.
JsonLoad(t) ==
    LET r == ParseValue(t, SkipWs(t, 1))
    IN  IF ~r.ok THEN Fail
        ELSE IF SkipWs(t, r.pos) # Len(t) + 1 THEN Fail
        ELSE r

(***************************************************************************)
(* report.py                                                               *)
(***************************************************************************)

K(name) == <<name>>

\* The dict scan appends for a silent file.
SilentFileRecord(path, size, duration) ==
    PyDict(<< <<K("path"), PyStr(path)>>,
              <<K("size_bytes"), PyInt(size)>>,
              <<K("duration_seconds"), duration>> >>)

RecPath(rec) == Get(rec, K("path"))[2]
RecSize(rec) == Get(rec, K("size_bytes"))[2]

\* sessions[session_path].append(file), the key created on first use.
SessionsAddBuggy(sessions, key, file) ==
    IF \E i \in 1..Len(sessions) : sessions[i][1] = key
    THEN [i \in 1..Len(sessions) |->
            IF sessions[i][1] = key THEN <<key, <<file>>>> ELSE sessions[i]]
    ELSE Append(sessions, <<key, <<file>>>>)

SessionsAdd(sessions, key, file) ==
    IF \E i \in 1..Len(sessions) : sessions[i][1] = key
    THEN [i \in 1..Len(sessions) |->
            IF sessions[i][1] = key
            THEN <<key, Append(sessions[i][2], file)>>
            ELSE sessions[i]]
    ELSE Append(sessions, <<key, <<file>>>>)

\* The loop of group_by_session: the dict of lists, in insertion order.
RECURSIVE GroupInto(_, _, _)
GroupInto(files, i, sessions) ==
    IF i > Len(files) THEN sessions
    ELSE GroupInto(files, i + 1,
                   SessionsAdd(sessions, PathParent(RecPath(files[i])), files[i]))

\* sorted(sessions.items()): the keys are distinct, so the key decides.
RECURSIVE InsertSorted(_, _)
InsertSorted(item, items) ==
    IF items = <<>> THEN <<item>>
    ELSE IF StrLess(item[1], items[1][1]) THEN <<item>> \o items
    ELSE <<items[1]>> \o InsertSorted(item, Tail(items))

RECURSIVE SortItemsRec(_)
SortItemsRec(items) ==
    IF items = <<>> THEN <<>>
    ELSE InsertSorted(items[Len(items)], SortItemsRec(SubSeq(items, 1, Len(items) - 1)))

SortItemsUnsorted(items) == items

SortItems(items) == SortItemsRec(items)

SessionDict(item) ==
    PyDict(<< <<K("session_path"), PyStr(item[1])>>,
              <<K("silent_file_count"), PyInt(Len(item[2]))>>,
              <<K("silent_files"), PyList(item[2])>> >>)

group_by_session(silent_files) ==
    LET items == SortItems(GroupInto(silent_files, 1, <<>>))
    IN  [i \in 1..Len(items) |-> SessionDict(items[i])]

\* sum(f["size_bytes"] for f in files)
RECURSIVE SumSizes(_)
SumSizes(files) ==
    IF files = <<>> THEN 0 ELSE RecSize(files[1]) + SumSizes(Tail(files))

\* round(x, 2) of the float m * 10^-d: to the nearest hundredth, a tie to
\* the even one.
Round2(m, d) ==
    IF d <= 2 THEN PyFloat(m, d)
    ELSE LET q   == 10 ^ (d - 2)
             lo  == m \div q
             rem == m - lo * q
             up  == (2 * rem > q) \/ (2 * rem = q /\ lo % 2 = 1)
         IN  NormFloat(IF up THEN lo + 1 ELSE lo, 2)

\* datetime.isoformat() of the clock reading: minutes and seconds.
IsoFormat(now) == PadDigits(now \div 60, 2) \o <<":">> \o PadDigits(now % 60, 2)

\* threshold_db and duration_seconds are floats <<"float", m, d>>; now is
\* the clock datetime.now reads.
build_report(root, silent_files, total_scanned, threshold_db, duration_seconds, now) ==
    PyDict(<< <<K("scanned_at"), PyStr(IsoFormat(now))>>,
              <<K("root_path"), PyStr(root)>>,
              <<K("threshold_db"), threshold_db>>,
              <<K("scan_duration_seconds"),
                    Round2(duration_seconds[2], duration_seconds[3])>>,
              <<K("total_files_scanned"), PyInt(total_scanned)>>,
              <<K("total_silent_files"), PyInt(Len(silent_files))>>,
              <<K("total_silent_size_bytes"), PyInt(SumSizes(silent_files))>>,
              <<K("sessions"), PyList(group_by_session(silent_files))>> >>)

\* A path with no file.
NoFile == <<"<absent>">>

\* open(output_path, "w") and json.dump: the file is replaced.
write_report(files, report, output_path) ==
    [files EXCEPT ![output_path] = JsonDump(report)]

\* read_report: the dict json.load returns, or the exception raised.
read_report(files, report_path) ==
    IF files[report_path] = NoFile
    THEN [kind |-> "FileNotFoundError",
          msg  |-> <<"Report file not found: ">> \o report_path]
    ELSE LET r == JsonLoad(files[report_path])
         IN  IF r.ok THEN [kind |-> "ok", val |-> r.val]
             ELSE [kind |-> "JSONDecodeError", msg |-> <<"Expecting value">>]

\* for x in v: the items of a list, the characters of a str, the keys of a
\* dict; any other value is not iterable.
Iter(v) ==
    CASE Tag(v) = "list" -> [ok |-> TRUE, items |-> v[2]]
      [] Tag(v) = "str"  -> [ok |-> TRUE,
                             items |-> [i \in 1..Len(v[2]) |-> PyStr(<<v[2][i]>>)]]
      [] Tag(v) = "dict" -> [ok |-> TRUE,
                             items |-> [i \in 1..Len(v[2]) |-> PyStr(v[2][i][1])]]
      [] OTHER           -> [ok |-> FALSE, items |-> <<>>]

\* collect_files: report["sessions"] and session["silent_files"] are plain
\* subscripts, so a value of another shape raises here, not in read_report.
RECURSIVE CollectFrom(_, _, _)
CollectFrom(sessions, i, acc) ==
    IF i > Len(sessions) THEN [kind |-> "ok", val |-> acc]
    ELSE LET session == sessions[i]
         IN  IF Tag(session) # "dict" THEN [kind |-> "TypeError"]
             ELSE IF ~HasKey(session, K("silent_files")) THEN [kind |-> "KeyError"]
             ELSE LET fl == Iter(Get(session, K("silent_files")))
                  IN  IF ~fl.ok THEN [kind |-> "TypeError"]
                      ELSE CollectFrom(sessions, i + 1, acc \o fl.items)

collect_files(report) ==
    IF Tag(report) # "dict" THEN [kind |-> "TypeError"]
    ELSE IF ~HasKey(report, K("sessions")) THEN [kind |-> "KeyError"]
    ELSE LET ss == Iter(Get(report, K("sessions")))
         IN  IF ~ss.ok THEN [kind |-> "TypeError"]
             ELSE CollectFrom(ss.items, 1, <<>>)

(***************************************************************************)
(* The file system a scan sees                                             *)
(***************************************************************************)

\* How many of CandidateTable's files exist.
NumFiles == 3
\* How many scans one behaviour runs.
MaxScans == 2
\* The longest record list handed to build_report directly.
MaxRecords == 3

RootDir == <<"/", "r">>
MissingRoot == <<"/", "x">>
Roots == {RootDir, MissingRoot}

\* The directories that exist, a parent before its children, in the order
\* scandir lists them.
DirTable == << RootDir, <<"/", "r", "/", "a">>, <<"/", "r", "/", "b">> >>
DirSet == {DirTable[i] : i \in 1..Len(DirTable)}

\* Files with a supported extension; the first NumFiles exist.
CandidateTable ==
    << <<"/", "r", "/", "a", "/", "k", ".", "w", "a", "v">>,
       <<"/", "r", "/", "a", "/", "s", ".", "W", "A", "V">>,
       <<"/", "r", "/", "b", "/", "t", ".", "a", "i", "f">>,
       <<"/", "r", "/", "k", ".", "a", "i", "f", "f">>,
       <<"/", "r", "/", "b", "/", "x", ".", "A", "i", "f">> >>

\* Files scan must pass over: no suffix scan supports.
OtherFiles ==
    << <<"/", "r", "/", "a", "/", "n", ".", "t", "x", "t">>,
       <<"/", "r", "/", "b", "/", ".", "w", "a", "v">>,
       <<"/", "r", "/", "w", "a", "v">> >>

FsEntries == OtherFiles \o SubSeq(CandidateTable, 1, NumFiles)

\* What the audio library and stat report of a file.  peak is in millionths
\* of full scale; duration is PyNone where sf.info fails.
Corrupt == [decodes |-> FALSE, frames |-> 0, peak |-> 0, size |-> 120,
            duration |-> PyNone]
Empty   == [decodes |-> TRUE, frames |-> 0, peak |-> 0, size |-> 44,
            duration |-> PyFloat(0, 1)]
Silent  == [decodes |-> TRUE, frames |-> 2, peak |-> 0, size |-> 4000,
            duration |-> PyFloat(20, 1)]
Quiet   == [decodes |-> TRUE, frames |-> 2, peak |-> 500, size |-> 3000,
            duration |-> PyNone]
Loud    == [decodes |-> TRUE, frames |-> 2, peak |-> 10 ^ 6, size |-> 5000,
            duration |-> PyFloat(125, 2)]
Profiles == {Corrupt, Empty, Silent, Quiet, Loud}

\* The sets of directories that cannot be listed.
UnlistableChoices == { {}, {DirTable[1]}, {DirTable[2]}, {DirTable[3]} }

Thresholds == {-80, -60}

(***************************************************************************)
(* scanner.py                                                              *)
(***************************************************************************)

\* 10 ** (db / 20) in millionths, for db a multiple of 20 from -120 up.
db_to_amplitude(db) == 10 ^ (6 + db \div 20)

\* The threshold as the float click hands over.
DbFloat(db) == PyFloat(db * 10, 1)

\* The try block of is_silent: "exc" where sf.read or np.max raises
\* (np.max of a zero-size array is a ValueError).
IsSilentBody(prof, db) ==
    IF ~prof.decodes THEN "exc"
    ELSE IF prof.frames = 0 THEN "exc"
    ELSE IF prof.peak < db_to_amplitude(db) THEN "true" ELSE "false"

is_silent_uncaught(prof, db) ==
    IF IsSilentBody(prof, db) = "exc" THEN "raise" ELSE IsSilentBody(prof, db)

\* is_silent: "true", "false", or "raise" for an exception that leaves it;
\* except Exception turns every one into False.
is_silent(prof, db) ==
    IF IsSilentBody(prof, db) = "exc" THEN "false" ELSE IsSilentBody(prof, db)

get_duration(prof) == prof.duration

\* The filenames os.scandir(d) yields.
ListNames(d) ==
    LET here == SelectSeq(FsEntries, LAMBDA p : PathParent(p) = d)
    IN  [i \in 1..Len(here) |-> PathName(here[i])]

Subdirs(d) == SelectSeq(DirTable, LAMBDA s : PathParent(s) = d)

\* os.walk(top) with onerror=None: a directory whose scandir fails (it does
\* not exist, or cannot be listed) yields nothing and raises nothing.
RECURSIVE Walk(_, _)
RECURSIVE WalkEach(_, _)
Walk(top, unlistable) ==
    IF top \notin DirSet \/ top \in unlistable THEN <<>>
    ELSE << <<top, ListNames(top)>> >> \o WalkEach(Subdirs(top), unlistable)

WalkEach(dirs, unlistable) ==
    IF dirs = <<>> THEN <<>>
    ELSE Walk(dirs[1], unlistable) \o WalkEach(Tail(dirs), unlistable)

\* The comprehension that builds all_files from the walk.
RECURSIVE AllFilesOf(_)
AllFilesOf(walk) ==
    IF walk = <<>> THEN <<>>
    ELSE LET names == SelectSeq(walk[1][2], IsCandidateName)
         IN  [i \in 1..Len(names) |-> JoinPath(walk[1][1], names[i])]
                \o AllFilesOf(Tail(walk))

(***************************************************************************)
(* cli.py: where reports go                                                *)
(***************************************************************************)

ReportsDir == <<"/", "reports">>

\* get_default_report_path: named after the root folder alone.
get_default_report_path(root) ==
    JoinPath(ReportsDir, PathName(root) \o <<".silentscan.json">>)

\* A path given with --output.
OutputPath == <<"/", "o", ".silentscan.json">>

\* --output: the empty string stands for the option left out.
OutputChoices == {<<>>, OutputPath}

ReportPaths == {get_default_report_path(RootDir), OutputPath}

\* time.monotonic() differences a scan may measure.
DurationChoices == {PyFloat(12, 2), PyFloat(1337, 3)}

(***************************************************************************)
(* State                                                                   *)
(***************************************************************************)

VARIABLES
    fs,            \* profile of each existing candidate, unlistable directories
    store,         \* report path -> text of the file, or NoFile
    clock,         \* what datetime.now reads
    pc,            \* where the running operation stands
    call,          \* the running (or last) operation and its arguments
    all_files,     \* scan: the candidates, in traversal order
    index,         \* scan: the 1-based index of the next candidate
    progressed,    \* scan_directory: on_progress was called for `index`
    silent_files,  \* scan: the records appended so far
    trace,         \* the calls made so far: on_progress and is_silent
    report,        \* the last report build_report returned
    outcome,       \* how the last operation ended
    written,       \* every <<path, text>> a write_report call wrote
    scans,         \* scans started
    limit,         \* scans this behaviour may start
    clean          \* the clean workflow: its flags, the prompt, the trash calls

vars == << fs, store, clock, pc, call, all_files, index, progressed,
           silent_files, trace, report, outcome, written, scans, limit, clean >>

NoCall == [cmd |-> "none"]
NoOutcome == [kind |-> "none"]
NoClean == [cmd |-> "none"]

ProfileOf(path) ==
    fs.profile[CHOOSE i \in 1..NumFiles : CandidateTable[i] = path]

InitCommon ==
    /\ store = [p \in ReportPaths |-> NoFile]
    /\ clock = 0
    /\ call = NoCall
    /\ all_files = <<>>
    /\ index = 1
    /\ progressed = FALSE
    /\ trace = <<>>
    /\ report = PyNone
    /\ outcome = NoOutcome
    /\ written = <<>>
    /\ scans = 0
    /\ clean = NoClean

\* One scan of any tree.
Init ==
    /\ fs \in [profile : [1..NumFiles -> Profiles], unlistable : UnlistableChoices]
    /\ pc = "idle"
    /\ silent_files = <<>>
    /\ limit = 1
    /\ InitCommon

\* Scan after scan of a tree whose files are all alike.
InitRepeat ==
    /\ fs \in [profile : {[i \in 1..NumFiles |-> p] : p \in Profiles},
                unlistable : {{}}]
    /\ pc = "idle"
    /\ silent_files = <<>>
    /\ limit = MaxScans
    /\ InitCommon

(***************************************************************************)
(* scanner.scan_directory(root, threshold_db, on_progress)                 *)
(***************************************************************************)

\* Lines 39-47: the walk, before the loop.
LibStart(root, db, with_progress) ==
    /\ pc = "idle"
    /\ scans < limit
    /\ scans' = scans + 1
    /\ call' = [cmd |-> "scan_directory", root |-> root, threshold |-> db,
                on_progress |-> with_progress]
    /\ all_files' = AllFilesOf(Walk(root, fs.unlistable))
    /\ index' = 1
    /\ progressed' = FALSE
    /\ silent_files' = <<>>
    /\ trace' = <<>>
    /\ outcome' = NoOutcome
    /\ pc' = "lib_loop"
    /\ UNCHANGED << fs, store, clock, report, written, limit, clean >>

\* Lines 50-51: the callback, first thing in the iteration.
LibProgress ==
    /\ pc = "lib_loop"
    /\ index <= Len(all_files)
    /\ call.on_progress
    /\ ~progressed
    /\ trace' = Append(trace, <<"progress", index, Len(all_files), all_files[index]>>)
    /\ progressed' = TRUE
    /\ UNCHANGED << fs, store, clock, pc, call, all_files, index, silent_files,
                    report, outcome, written, scans, limit, clean >>

\* What one pass of the loop body does to silent_files (lines 53-58 of
\* scanner.py, 134-141 of cli.py).
Classified(path, db) == is_silent(ProfileOf(path), db)

AppendIfSilent(acc, path, verdict) ==
    IF verdict = "true"
    THEN Append(acc, SilentFileRecord(path, ProfileOf(path).size,
                                      get_duration(ProfileOf(path))))
    ELSE acc

\* Lines 53-58: is_silent and the append; an exception leaving is_silent
\* would end the scan.
LibClassify ==
    /\ pc = "lib_loop"
    /\ index <= Len(all_files)
    /\ call.on_progress => progressed
    /\ LET verdict == Classified(all_files[index], call.threshold)
       IN  /\ trace' = Append(trace, <<"is_silent", index, verdict>>)
           /\ IF verdict = "raise"
              THEN /\ pc' = "idle"
                   /\ outcome' = [kind |-> "exception"]
                   /\ clock' = clock + 1
                   /\ UNCHANGED << silent_files, index >>
              ELSE /\ silent_files' = AppendIfSilent(silent_files, all_files[index], verdict)
                   /\ index' = index + 1
                   /\ UNCHANGED << pc, outcome, clock >>
    /\ progressed' = FALSE
    /\ UNCHANGED << fs, store, call, all_files, report, written, scans, limit, clean >>

\* Line 60.
LibReturn ==
    /\ pc = "lib_loop"
    /\ index > Len(all_files)
    /\ pc' = "idle"
    /\ outcome' = [kind |-> "returned"]
    /\ clock' = clock + 1
    /\ UNCHANGED << fs, store, call, all_files, index, progressed, silent_files,
                    trace, report, written, scans, limit, clean >>

(***************************************************************************)
(* cli.scan(root, output, threshold).  --quiet only changes what is        *)
(* echoed.                                                                 *)
(***************************************************************************)

\* total_scanned as scan hands it to build_report.
TotalScannedSilentOnly(files, silent) == Len(silent)

TotalScanned(files, silent) == Len(files)

\* Lines 70 and 97-119: click refuses a root that is no directory; then the
\* walk, and the early return when it finds no candidate.
CliStart(root, output, db) ==
    /\ pc = "idle"
    /\ scans < limit
    /\ scans' = scans + 1
    /\ call' = [cmd |-> "scan", root |-> root, threshold |-> db,
                output_path |-> IF output # <<>> THEN output
                                ELSE get_default_report_path(root)]
    /\ index' = 1
    /\ progressed' = FALSE
    /\ silent_files' = <<>>
    /\ trace' = <<>>
    /\ IF root \notin DirSet
       THEN /\ all_files' = <<>>
            /\ outcome' = [kind |-> "usage_error"]
            /\ pc' = "idle"
            /\ clock' = clock + 1
       ELSE LET found == AllFilesOf(Walk(root, fs.unlistable))
            IN  /\ all_files' = found
                /\ IF found = <<>>
                   THEN /\ outcome' = [kind |-> "no_files"]
                        /\ pc' = "idle"
                        /\ clock' = clock + 1
                   ELSE /\ outcome' = NoOutcome
                        /\ pc' = "cli_loop"
                        /\ clock' = clock
    /\ UNCHANGED << fs, store, report, written, limit, clean >>

\* Lines 127-149: one pass of the loop.
CliClassify ==
    /\ pc = "cli_loop"
    /\ index <= Len(all_files)
    /\ LET verdict == Classified(all_files[index], call.threshold)
       IN  /\ trace' = Append(trace, <<"is_silent", index, verdict>>)
           /\ IF verdict = "raise"
              THEN /\ pc' = "idle"
                   /\ outcome' = [kind |-> "exception"]
                   /\ clock' = clock + 1
                   /\ UNCHANGED << silent_files, index >>
              ELSE /\ silent_files' = AppendIfSilent(silent_files, all_files[index], verdict)
                   /\ index' = index + 1
                   /\ UNCHANGED << pc, outcome, clock >>
    /\ UNCHANGED << fs, store, call, all_files, progressed, report, written, scans, limit, clean >>

\* Lines 151-167: build_report, write_report.
CliFinish(duration) ==
    /\ pc = "cli_loop"
    /\ index > Len(all_files)
    /\ LET rep == build_report(call.root, silent_files,
                               TotalScanned(all_files, silent_files),
                               DbFloat(call.threshold), duration, clock)
       IN  /\ report' = rep
           /\ store' = write_report(store, rep, call.output_path)
           /\ written' = Append(written, <<call.output_path, JsonDump(rep)>>)
    /\ outcome' = [kind |-> "report_saved"]
    /\ pc' = "idle"
    /\ clock' = clock + 1
    /\ UNCHANGED << fs, call, all_files, index, progressed, silent_files, trace, scans, limit, clean >>

Next ==
    \/ \E root \in Roots, db \in Thresholds, wp \in BOOLEAN : LibStart(root, db, wp)
    \/ LibProgress
    \/ LibClassify
    \/ LibReturn
    \/ \E root \in Roots, out \in OutputChoices, db \in Thresholds : CliStart(root, out, db)
    \/ CliClassify
    \/ \E d \in DurationChoices : CliFinish(d)

Spec == Init /\ [][Next]_vars

SpecRepeat == InitRepeat /\ [][Next]_vars

(***************************************************************************)
(* report.py called directly: build_report on any list of records, then    *)
(* write_report and read_report; and read_report on a file that no         *)
(* write_report wrote.                                                     *)
(***************************************************************************)

\* Records as scan builds them, from directories whose names sort in an
\* order of their own ("/r/a" < "/r/a-b" < "/r/a/c" < "/r/b"), one with a
\* quote and a backslash in its name.
RecordPool ==
    << SilentFileRecord(<<"/", "r", "/", "b", "/", "t", ".", "a", "i", "f">>,
                        3000, PyFloat(15, 1)),
       SilentFileRecord(<<"/", "r", "/", "a", "/", "k", ".", "w", "a", "v">>,
                        4000, PyFloat(20, 1)),
       SilentFileRecord(<<"/", "r", "/", "a", "-", "b", "/", "s", ".", "w", "a", "v">>,
                        120, PyNone),
       SilentFileRecord(<<"/", "r", "/", "a", "/", "c", "/", "x", ".", "w", "a", "v">>,
                        0, PyFloat(25, 2)),
       SilentFileRecord(<<"/", "r", "/", "a", "/", "n", "\"", "\\", ".", "w", "a", "v">>,
                        7, PyNone) >>

RecordLists ==
    UNION { { [i \in 1..n |-> RecordPool[f[i]]] : f \in [1..n -> 1..Len(RecordPool)] }
            : n \in 0..MaxRecords }

\* Files that are not the text of any report: hand-edited, cut short by an
\* interrupted write, or another program's.
ForeignTexts ==
    { <<>>,
      <<"{", "}">>,
      <<"[", "]">>,
      <<"{", "\"", "sessions", "\"", ":", " ", "5", "}">>,
      <<"true">>,
      <<"{", "\"", "sessions", "\"", ":", " ", "[", "\n">>,
      <<"{", "\"", "sessions", "\"", ":", " ", "[", "{", "\"", "session_path",
        "\"", ":", " ", "\"", "/", "r", "\"", "}", "]", "}">> }

InitReport ==
    /\ fs = [profile |-> [i \in 1..NumFiles |-> Silent], unlistable |-> {}]
    /\ pc = "input"
    /\ silent_files \in RecordLists
    /\ limit = 0
    /\ InitCommon

\* build_report(root, silent_files, total_scanned, threshold_db, duration_seconds)
ApiBuild(db, duration) ==
    /\ pc = "input"
    /\ call' = [cmd |-> "build_report"]
    /\ report' = build_report(RootDir, silent_files, Len(silent_files),
                              DbFloat(db), duration, clock)
    /\ clock' = clock + 1
    /\ pc' = "built"
    /\ UNCHANGED << fs, store, all_files, index, progressed, silent_files, trace,
                    outcome, written, scans, limit, clean >>

\* write_report(report, output_path)
ApiWrite(path) ==
    /\ pc = "built"
    /\ call' = [cmd |-> "write_report", path |-> path]
    /\ store' = write_report(store, report, path)
    /\ written' = Append(written, <<path, JsonDump(report)>>)
    /\ pc' = "written"
    /\ UNCHANGED << fs, clock, all_files, index, progressed, silent_files, trace,
                    report, outcome, scans, limit, clean >>

\* Something other than write_report puts a file at a report path.
ForeignWrite(path, text) ==
    /\ pc = "input"
    /\ call' = [cmd |-> "foreign_write", path |-> path]
    /\ store' = [store EXCEPT ![path] = text]
    /\ pc' = "foreign"
    /\ UNCHANGED << fs, clock, all_files, index, progressed, silent_files, trace,
                    report, outcome, written, scans, limit, clean >>

\* read_report(report_path), then collect_files on what it returned, as
\* run_clean does.
ApiRead(path) ==
    /\ pc \in {"written", "foreign"}
    /\ call' = [cmd |-> "read_report", path |-> path]
    /\ LET r == read_report(store, path)
       IN  outcome' = IF r.kind = "ok"
                      THEN [kind |-> "ok", val |-> r.val,
                            files |-> collect_files(r.val)]
                      ELSE r
    /\ pc' = "read"
    /\ UNCHANGED << fs, store, clock, all_files, index, progressed, silent_files,
                    trace, report, written, scans, limit, clean >>

NextReport ==
    \/ \E db \in Thresholds, d \in DurationChoices : ApiBuild(db, d)
    \/ \E path \in ReportPaths : ApiWrite(path)
    \/ \E path \in ReportPaths, text \in ForeignTexts : ForeignWrite(path, text)
    \/ \E path \in ReportPaths : ApiRead(path)

SpecReport == InitReport /\ [][NextReport]_vars

(***************************************************************************)
(* Reading the state                                                       *)
(***************************************************************************)

Sessions(rep) == Get(rep, K("sessions"))[2]
SessionPath(session) == Get(session, K("session_path"))[2]
SessionCount(session) == Get(session, K("silent_file_count"))[2]
SessionFiles(session) == Get(session, K("silent_files"))[2]

RECURSIVE SumCounts(_)
SumCounts(sessions) ==
    IF sessions = <<>> THEN 0
    ELSE SessionCount(sessions[1]) + SumCounts(Tail(sessions))

RECURSIVE SumSessionSizes(_)
SumSessionSizes(sessions) ==
    IF sessions = <<>> THEN 0
    ELSE SumSizes(SessionFiles(sessions[1])) + SumSessionSizes(Tail(sessions))

SessionPaths(sessions) == [i \in 1..Len(sessions) |-> SessionPath(sessions[i])]

RecPaths(files) == [i \in 1..Len(files) |-> RecPath(files[i])]

Range(seq) == {seq[i] : i \in 1..Len(seq)}

\* sub occurs in s as a run of consecutive characters.
Contains(s, sub) ==
    \E i \in 1..(Len(s) - Len(sub) + 1) : SubSeq(s, i, i + Len(sub) - 1) = sub

\* The is_silent calls of the trace, in order.
IsSilentCalls == SelectSeq(trace, LAMBDA e : e[1] = "is_silent")

ScanCalled == call.cmd \in {"scan", "scan_directory"}

\* The scan ran its loop to the end.
ScanCompleted ==
    ScanCalled /\ pc = "idle" /\ outcome.kind \in {"returned", "report_saved"}

\* The scan ended with an error at its caller.
ScanFailed ==
    ScanCalled /\ pc = "idle" /\ outcome.kind \in {"usage_error", "exception"}

ExistingCandidates == {CandidateTable[i] : i \in 1..NumFiles}

\* Every directory from root down to d exists and can be listed.
RECURSIVE Walkable(_, _)
Walkable(d, root) ==
    /\ d \in DirSet
    /\ d \notin fs.unlistable
    /\ d = root \/ (Len(d) > Len(root) /\ Walkable(PathParent(d), root))

\* The walk from root meets a directory it cannot list, or root is missing.
TraversalFails(root) ==
    \/ root \notin DirSet
    \/ \E d \in fs.unlistable :
            d = root \/ (PathParent(d) # d /\ Walkable(PathParent(d), root))

(***************************************************************************)
(* Properties of report.py, under SpecReport                               *)
(***************************************************************************)

\* C1: in every report build_report returns, total_silent_files is the sum
\* of silent_file_count over the sessions, and total_silent_size_bytes is
\* the sum of size_bytes over the records of all sessions.
C1_AggregateConsistency ==
    report # PyNone =>
        /\ Get(report, K("total_silent_files"))[2] = SumCounts(Sessions(report))
        /\ Get(report, K("total_silent_size_bytes"))[2]
                = SumSessionSizes(Sessions(report))

\* A report of several sessions, one of them with several files.
C1_Witness ==
    /\ report # PyNone
    /\ Len(Sessions(report)) >= 2
    /\ \E i \in 1..Len(Sessions(report)) : SessionCount(Sessions(report)[i]) >= 2
    /\ Get(report, K("total_silent_size_bytes"))[2] > 0

\* The empty list gives a report too, with no session.
C1_WitnessEmpty ==
    report # PyNone /\ silent_files = <<>> /\ Sessions(report) = <<>>

Orderings(n) ==
    {f \in [1..n -> 1..n] : \A i, j \in 1..n : f[i] = f[j] => i = j}

\* C4: the sessions of a report are in strictly ascending order of
\* session_path (so no two share one), and the records in any other order
\* give the same session paths in the same order.
C4_GroupingDeterminism ==
    pc = "built" =>
        LET paths == SessionPaths(Sessions(report))
        IN  /\ \A i \in 1..(Len(paths) - 1) : StrLess(paths[i], paths[i + 1])
            /\ \A f \in Orderings(Len(silent_files)) :
                  SessionPaths(group_by_session(
                      [i \in 1..Len(silent_files) |-> silent_files[f[i]]])) = paths

\* Three sessions whose records came in an order that is not the sorted one.
C4_Witness ==
    /\ pc = "built"
    /\ Len(Sessions(report)) >= 3
    /\ \E i \in 1..(Len(silent_files) - 1) :
          StrLess(PathParent(RecPath(silent_files[i + 1])),
                  PathParent(RecPath(silent_files[i])))

\* read_report was called on the path the report was written to.
ReadBack ==
    /\ pc = "read"
    /\ written # <<>>
    /\ call.path = written[Len(written)][1]

\* C5: a report written with write_report and read from the same path with
\* read_report comes back equal to the report, sessions and files in order.
C5_ReportRoundTrip ==
    ReadBack => outcome.kind = "ok" /\ outcome.val = report

\* A round trip of a report with two sessions and a path that needs
\* escaping, a null duration among its records.
C5_Witness ==
    /\ ReadBack
    /\ outcome.kind = "ok"
    /\ Len(Sessions(report)) >= 2
    /\ \E i \in 1..Len(silent_files) :
          /\ "\\" \in Range(RecPath(silent_files[i]))
          /\ Get(silent_files[i], K("duration_seconds")) = PyNone

\* The schema of a persisted report: every field present, each of its type.
IsNumber(v) == Tag(v) \in {"int", "float"}

IsRecordOfSchema(f) ==
    /\ Tag(f) = "dict"
    /\ HasKey(f, K("path")) /\ Tag(Get(f, K("path"))) = "str"
    /\ HasKey(f, K("size_bytes")) /\ Tag(Get(f, K("size_bytes"))) = "int"
    /\ HasKey(f, K("duration_seconds"))
    /\ (IsNumber(Get(f, K("duration_seconds")))
            \/ Get(f, K("duration_seconds")) = PyNone)

IsSessionOfSchema(g) ==
    /\ Tag(g) = "dict"
    /\ HasKey(g, K("session_path")) /\ Tag(Get(g, K("session_path"))) = "str"
    /\ HasKey(g, K("silent_file_count"))
    /\ Tag(Get(g, K("silent_file_count"))) = "int"
    /\ HasKey(g, K("silent_files")) /\ Tag(Get(g, K("silent_files"))) = "list"
    /\ \A i \in 1..Len(SessionFiles(g)) : IsRecordOfSchema(SessionFiles(g)[i])

ConformsToSchema(v) ==
    /\ Tag(v) = "dict"
    /\ HasKey(v, K("scanned_at")) /\ Tag(Get(v, K("scanned_at"))) = "str"
    /\ HasKey(v, K("root_path")) /\ Tag(Get(v, K("root_path"))) = "str"
    /\ HasKey(v, K("threshold_db")) /\ IsNumber(Get(v, K("threshold_db")))
    /\ HasKey(v, K("scan_duration_seconds"))
    /\ IsNumber(Get(v, K("scan_duration_seconds")))
    /\ HasKey(v, K("total_files_scanned"))
    /\ Tag(Get(v, K("total_files_scanned"))) = "int"
    /\ HasKey(v, K("total_silent_files"))
    /\ Tag(Get(v, K("total_silent_files"))) = "int"
    /\ HasKey(v, K("total_silent_size_bytes"))
    /\ Tag(Get(v, K("total_silent_size_bytes"))) = "int"
    /\ HasKey(v, K("sessions")) /\ Tag(Get(v, K("sessions"))) = "list"
    /\ \A i \in 1..Len(Sessions(v)) : IsSessionOfSchema(Sessions(v)[i])

ParsesIntoSchema(text) ==
    LET r == JsonLoad(text) IN r.ok /\ ConformsToSchema(r.val)

\* read_report was called on a file that is there and is no report.
ReadMalformed ==
    /\ pc = "read"
    /\ store[call.path] # NoFile
    /\ ~ParsesIntoSchema(store[call.path])

\* C6: read_report on a file that does not parse into the report schema
\* fails with an error that names the path, and returns no report.
C6_MalformedReportRejected ==
    ReadMalformed => outcome.kind # "ok" /\ Contains(outcome.msg, call.path)

\* What read_report does there: the file "{}" comes back as a report.
C6_ReturnsMalformedValue ==
    ReadMalformed /\ outcome.kind = "ok" /\ outcome.val = PyDict(<<>>)

\* Every report write_report wrote does parse into the schema.
C6_WrittenReportsConform ==
    \A i \in 1..Len(written) : ParsesIntoSchema(written[i][2])

(***************************************************************************)
(* Properties of a scan, under Spec                                        *)
(***************************************************************************)

\* The candidates is_silent found silent so far, in the order of the calls.
SilentSoFar ==
    LET hits == SelectSeq(IsSilentCalls, LAMBDA e : e[3] = "true")
    IN  [i \in 1..Len(hits) |-> all_files[hits[i][2]]]

\* C2: a scan examines every candidate once, in traversal order: all_files
\* holds each candidate the walk reaches exactly once, is_silent is called
\* on them in order, silent_files is exactly the records of those found
\* silent, and the report's total_files_scanned counts every candidate.
C2_EveryCandidateOnce ==
    ScanCalled =>
        /\ \A p \in ExistingCandidates :
              Walkable(PathParent(p), call.root)
                  => Cardinality({i \in 1..Len(all_files) : all_files[i] = p}) = 1
        /\ Len(IsSilentCalls) = index - 1
        /\ \A k \in 1..Len(IsSilentCalls) : IsSilentCalls[k][2] = k
        /\ RecPaths(silent_files) = SilentSoFar
        /\ \A i \in 1..Len(silent_files) :
              silent_files[i]
                  = SilentFileRecord(RecPath(silent_files[i]),
                                     ProfileOf(RecPath(silent_files[i])).size,
                                     ProfileOf(RecPath(silent_files[i])).duration)
        /\ ScanCompleted => Len(IsSilentCalls) = Len(all_files)
        /\ outcome.kind = "report_saved"
              => /\ Get(report, K("total_files_scanned"))[2] = Len(IsSilentCalls)
                 /\ Get(report, K("total_silent_files"))[2] = Len(SilentSoFar)

\* A saved report of a scan that met a silent, a loud and an undecodable
\* candidate.
C2_Witness ==
    /\ outcome.kind = "report_saved"
    /\ Len(all_files) = NumFiles
    /\ \E i, j, k \in 1..Len(all_files) :
          /\ ProfileOf(all_files[i]) = Silent
          /\ ProfileOf(all_files[j]) = Loud
          /\ ProfileOf(all_files[k]) = Corrupt
    /\ Len(silent_files) = 1

\* C3: a candidate that fails to decode does not abort the scan: is_silent
\* returns False for it instead of raising, it gets no record, it is counted
\* in total_files_scanned, and the candidates after it are still examined.
C3_DecodeFailureAbsorbed ==
    ScanCalled =>
        /\ outcome.kind # "exception"
        /\ \A k \in 1..Len(IsSilentCalls) :
              LET p == all_files[IsSilentCalls[k][2]]
              IN  ~ProfileOf(p).decodes
                      => /\ IsSilentCalls[k][3] = "false"
                         /\ p \notin Range(RecPaths(silent_files))
        /\ ScanCompleted
              => \A i \in 1..Len(all_files) :
                    \E k \in 1..Len(IsSilentCalls) : IsSilentCalls[k][2] = i
        /\ outcome.kind = "report_saved"
              => Get(report, K("total_files_scanned"))[2] = Len(all_files)

\* A completed scan whose first candidate does not decode and whose last is
\* silent and recorded.
C3_Witness ==
    /\ ScanCompleted
    /\ Len(all_files) >= 2
    /\ ~ProfileOf(all_files[1]).decodes
    /\ all_files[Len(all_files)] \in Range(RecPaths(silent_files))

\* C7: when the root does not exist or a directory of the walk cannot be
\* listed, the scan ends with an error at its caller and writes no report.
C7_TraversalFailureIsFatal ==
    (ScanCalled /\ pc = "idle" /\ TraversalFails(call.root))
        => ScanFailed /\ written = <<>>

\* What the code does there: a report is saved although a directory with a
\* silent file in it could not be listed.
C7_ReportOmitsUnlistable ==
    /\ outcome.kind = "report_saved"
    /\ fs.unlistable # {}
    /\ \E p \in ExistingCandidates :
          /\ PathParent(p) \in fs.unlistable
          /\ ProfileOf(p) = Silent
          /\ p \notin Range(all_files)

\* C8: each call of on_progress for candidate i comes after is_silent has
\* decided candidate i.
C8_ProgressAfterClassification ==
    \A k \in 1..Len(trace) :
        trace[k][1] = "progress"
            => \E j \in 1..(k - 1) :
                  trace[j][1] = "is_silent" /\ trace[j][2] = trace[k][2]

\* What the code does: on_progress is called for a candidate that is_silent
\* has not been called on yet.
C8_ProgressBeforeClassification ==
    /\ call.cmd = "scan_directory"
    /\ progressed
    /\ trace[Len(trace)] = <<"progress", index, Len(all_files), all_files[index]>>
    /\ \A k \in 1..Len(IsSilentCalls) : IsSilentCalls[k][2] # index

\* What does hold of on_progress: one call per candidate, in order, with the
\* 1-based index, the count and the path, each before is_silent on it.
C8_ProgressOncePerCandidate ==
    (call.cmd = "scan_directory" /\ call.on_progress) =>
        LET calls == SelectSeq(trace, LAMBDA e : e[1] = "progress")
        IN  /\ \A k \in 1..Len(calls) :
                  calls[k] = <<"progress", k, Len(all_files), all_files[k]>>
            /\ Len(calls) = Len(IsSilentCalls) + (IF progressed THEN 1 ELSE 0)
            /\ ScanCompleted => Len(calls) = Len(all_files)

\* C9: a zero-frame file that decodes is classified silent, so a completed
\* scan holds a record for it.
C9_EmptyFileIsSilent ==
    ScanCompleted =>
        \A i \in 1..Len(all_files) :
            (ProfileOf(all_files[i]).decodes /\ ProfileOf(all_files[i]).frames = 0)
                => all_files[i] \in Range(RecPaths(silent_files))

\* What the code does: a completed scan of a tree with a zero-frame file has
\* no record for it.
C9_EmptyFileNotRecorded ==
    /\ ScanCompleted
    /\ \E i \in 1..Len(all_files) :
          /\ ProfileOf(all_files[i]) = Empty
          /\ IsSilentCalls[i][3] = "false"
          /\ all_files[i] \notin Range(RecPaths(silent_files))

(***************************************************************************)
(* Properties of scan after scan, under SpecRepeat                         *)
(***************************************************************************)

\* C10: a report a scan wrote is never replaced by a later scan: every text
\* written is still the text at its path and reads back as it was.
C10_ReportsAreAppendOnly ==
    \A i \in 1..Len(written) :
        /\ store[written[i][1]] = written[i][2]
        /\ read_report(store, written[i][1])
              = [kind |-> "ok", val |-> JsonLoad(written[i][2]).val]

\* What the code does: a second scan of the same root, --output left out,
\* puts its report where the first one was.
C10_SecondScanReplaces ==
    /\ Len(written) = 2
    /\ written[1][1] = get_default_report_path(RootDir)
    /\ written[2][1] = written[1][1]
    /\ written[2][2] # written[1][2]
    /\ store[written[1][1]] = written[2][2]

\* What does hold: the file at a path is the last report written there.
C10_LastWriteStays ==
    \A i \in 1..Len(written) :
        (\A j \in (i + 1)..Len(written) : written[j][1] # written[i][1])
            => store[written[i][1]] = written[i][2]

(***************************************************************************)
(* cleaner.py, and the clean and clean-all commands of cli.py              *)
(***************************************************************************)

\* Answers a prompt may turn down before one it accepts.
MaxPrompts == 2

\* str.strip(): the whitespace at both ends removed.
RECURSIVE LStrip(_)
LStrip(s) == IF s # <<>> /\ IsWs(s[1]) THEN LStrip(Tail(s)) ELSE s

RECURSIVE RStrip(_)
RStrip(s) ==
    IF s # <<>> /\ IsWs(s[Len(s)]) THEN RStrip(SubSeq(s, 1, Len(s) - 1)) ELSE s

Strip(s) == RStrip(LStrip(s))

ConfirmEmptyIsYes(answer) ==
    LET a == Lower(Strip(answer))
    IN  IF a \in {<<>>, <<"y">>, <<"y", "e", "s">>} THEN "yes"
        ELSE IF a \in {<<"n">>, <<"n", "o">>} THEN "no"
        ELSE "again"

\* One turn of the loop of _confirm on what input() returned: "yes" and
\* "no" are its return values, "again" is the next turn.
_confirm(answer) ==
    LET a == Lower(Strip(answer))
    IN  IF a \in {<<"y">>, <<"y", "e", "s">>} THEN "yes"
        ELSE IF a \in {<<>>, <<"n">>, <<"n", "o">>} THEN "no"
        ELSE "again"

\* One turn of click.confirm(..., default=False): the empty answer is the
\* default, an answer it does not know is asked again.
click_confirm(answer) ==
    LET a == Strip(Lower(answer))
    IN  IF a \in {<<"y">>, <<"y", "e", "s">>} THEN "yes"
        ELSE IF a \in {<<"n">>, <<"n", "o">>} THEN "no"
        ELSE IF a = <<>> THEN "no"
        ELSE "again"

Platforms == {"darwin", "win32", "linux"}

\* _trash_file: tool_ok is whether the trash command exited with 0 (darwin)
\* or winshell.delete_file returned without raising (win32); on any other
\* platform NotImplementedError is raised and caught.
_trash_file(platform, tool_ok) ==
    IF platform = "darwin" THEN tool_ok
    ELSE IF platform = "win32" THEN tool_ok
    ELSE FALSE

\* d.get(key, default)
GetOr(d, k, default) == IF HasKey(d, k) THEN Get(d, k) ELSE default

\* sum(f["size_bytes"] for f in files): "ok", or the exception it raises.
RECURSIVE SumOutcome(_)
SumOutcome(files) ==
    IF files = <<>> THEN "ok"
    ELSE LET f == files[1]
         IN  IF Tag(f) # "dict" THEN "TypeError"
             ELSE IF ~HasKey(f, K("size_bytes")) THEN "KeyError"
             ELSE IF Tag(Get(f, K("size_bytes"))) \notin {"int", "float", "bool"}
                  THEN "TypeError"
             ELSE SumOutcome(Tail(files))

\* print_file_list after the sum went through: "ok", or the exception of
\* f["path"], Path(...) or format_duration.
RECURSIVE print_file_list(_)
print_file_list(files) ==
    IF files = <<>> THEN "ok"
    ELSE LET f == files[1]
         IN  IF ~HasKey(f, K("path")) THEN "KeyError"
             ELSE IF Tag(Get(f, K("path"))) # "str" THEN "TypeError"
             ELSE IF Tag(GetOr(f, K("duration_seconds"), PyNone))
                        \notin {"none", "int", "float", "bool"}
                  THEN "TypeError"
             ELSE print_file_list(Tail(files))

Raise(exc) == [step |-> "raise", exc |-> exc, files |-> <<>>, reports |-> <<>>]

\* run_clean from `if not files` to the recycling loop: "raise", or the
\* return it takes ("nothing", "dry_run"), or what comes next ("prompt",
\* "recycle").
RunCleanStaged(files, dry_run, yes) ==
    IF files = <<>> THEN [step |-> "nothing", files |-> <<>>, reports |-> <<>>]
    ELSE IF SumOutcome(files) # "ok" THEN Raise(SumOutcome(files))
    ELSE IF print_file_list(files) # "ok" THEN Raise(print_file_list(files))
    ELSE IF dry_run THEN [step |-> "dry_run", files |-> files, reports |-> <<>>]
    ELSE IF ~yes THEN [step |-> "prompt", files |-> files, reports |-> <<>>]
    ELSE [step |-> "recycle", files |-> files, reports |-> <<>>]

\* files = collect_files(report), or the exception it raises.
RunCleanCollected(c, dry_run, yes) ==
    IF c.kind # "ok" THEN Raise(c.kind) ELSE RunCleanStaged(c.val, dry_run, yes)

\* report = read_report(report_path), or the exception it raises.
RunCleanRead(r, dry_run, yes) ==
    IF r.kind # "ok" THEN Raise(r.kind)
    ELSE RunCleanCollected(collect_files(r.val), dry_run, yes)

\* run_clean up to its recycling loop.
run_clean(texts, report_path, dry_run, yes) ==
    RunCleanRead(read_report(texts, report_path), dry_run, yes)

\* The report files a clean command may be pointed at or may find.
CleanPathTable ==
    << get_default_report_path(RootDir), get_default_report_path(MissingRoot),
       OutputPath >>

CleanPaths == {CleanPathTable[i] : i \in 1..Len(CleanPathTable)}

\* reports_dir.glob("*.silentscan.json")
IsReportFile(texts, p) ==
    /\ PathParent(p) = ReportsDir
    /\ p[Len(p)] = ".silentscan.json"
    /\ texts[p] # NoFile

Reversed(seq) == [i \in 1..Len(seq) |-> seq[Len(seq) + 1 - i]]

\* The loop of load_all_reports: the reports that read, an exception of
\* read_report caught and the file left out.
RECURSIVE ReadEach(_, _)
ReadEach(texts, report_files) ==
    IF report_files = <<>> THEN <<>>
    ELSE (IF read_report(texts, report_files[1]).kind = "ok"
          THEN << <<report_files[1], read_report(texts, report_files[1]).val>> >>
          ELSE <<>>)
            \o ReadEach(texts, Tail(report_files))

\* sorted(..., reverse=True) of the paths, which are distinct.
SortedDown(paths) ==
    LET up == SortItemsRec([i \in 1..Len(paths) |-> <<paths[i], paths[i]>>])
    IN  Reversed([i \in 1..Len(up) |-> up[i][1]])

\* load_all_reports: <<path, report>> of every report file that reads, the
\* paths in descending order.
load_all_reports(texts) ==
    ReadEach(texts,
             SortedDown(SelectSeq(CleanPathTable, LAMBDA p : IsReportFile(texts, p))))

\* The comprehensions of clean_all: .get with a default, so a missing key
\* is an empty list and a value that is no dict has no .get.
RECURSIVE TallySessions(_, _, _)
TallySessions(sessions, i, acc) ==
    IF i > Len(sessions) THEN [kind |-> "ok", val |-> acc]
    ELSE LET session == sessions[i]
         IN  IF Tag(session) # "dict" THEN [kind |-> "AttributeError"]
             ELSE LET fl == Iter(GetOr(session, K("silent_files"), PyList(<<>>)))
                  IN  IF ~fl.ok THEN [kind |-> "TypeError"]
                      ELSE TallySessions(sessions, i + 1, acc \o fl.items)

RECURSIVE TallyReports(_, _, _)
TallyReports(reports, i, acc) ==
    IF i > Len(reports) THEN [kind |-> "ok", val |-> acc]
    ELSE LET rep == reports[i][2]
         IN  IF Tag(rep) # "dict" THEN [kind |-> "AttributeError"]
             ELSE LET ss == Iter(GetOr(rep, K("sessions"), PyList(<<>>)))
                  IN  IF ~ss.ok THEN [kind |-> "TypeError"]
                      ELSE LET t == TallySessions(ss.items, 1, acc)
                           IN  IF t.kind # "ok" THEN t
                               ELSE TallyReports(reports, i + 1, t.val)

\* clean_all from `if not all_files` to its loop over the reports.
CleanAllTallied(paths, tally, dry_run, yes) ==
    IF tally.kind # "ok" THEN Raise(tally.kind)
    ELSE IF tally.val = <<>>
         THEN [step |-> "nothing", files |-> <<>>, reports |-> paths]
    ELSE IF SumOutcome(tally.val) # "ok" THEN Raise(SumOutcome(tally.val))
    ELSE IF dry_run
         THEN [step |-> "dry_run", files |-> tally.val, reports |-> paths]
    ELSE IF ~yes
         THEN [step |-> "prompt", files |-> tally.val, reports |-> paths]
    ELSE [step |-> "recycle", files |-> tally.val, reports |-> paths]

CleanAllLoaded(reports, dry_run, yes) ==
    IF reports = <<>>
    THEN [step |-> "no_reports", files |-> <<>>, reports |-> <<>>]
    ELSE CleanAllTallied([i \in 1..Len(reports) |-> reports[i][1]],
                         TallyReports(reports, 1, <<>>), dry_run, yes)

\* clean_all up to its loop over the reports.
clean_all(texts, dry_run, yes) ==
    CleanAllLoaded(load_all_reports(texts), dry_run, yes)

(***************************************************************************)
(* The clean commands run on a directory of reports                        *)
(***************************************************************************)

\* The files the reports list.
CleanRecords ==
    << SilentFileRecord(CandidateTable[1], 4000, PyFloat(20, 1)),
       SilentFileRecord(CandidateTable[3], 3000, PyNone) >>

CleanFiles == {RecPath(CleanRecords[i]) : i \in 1..Len(CleanRecords)}

ReportText(records) ==
    JsonDump(build_report(RootDir, records, Len(records), DbFloat(-60),
                          PyFloat(12, 2), 0))

\* A report whose file record has no size_bytes.
NoSizeText ==
    <<"{", "\"", "sessions", "\"", ":", " ", "[", "{", "\"", "silent_files", "\"",
      ":", " ", "[", "{", "\"", "path", "\"", ":", " ", "\"">>
        \o CandidateTable[1] \o <<"\"", "}", "]", "}", "]", "}">>

\* What the report of the scanned root may hold: a report of two sessions,
\* of one, of none, and files that are no report.
CleanTexts ==
    { NoFile, ReportText(CleanRecords), ReportText(<<CleanRecords[1]>>),
      ReportText(<<>>), NoSizeText,
      <<"{", "}">>, <<"[", "]">>,
      <<"{", "\"", "sessions", "\"", ":", " ", "[", "\n">> }

\* The other report of the directory lists a file the first one lists too.
OtherTexts ==
    { NoFile, ReportText(<<CleanRecords[1]>>),
      <<"{", "\"", "sessions", "\"", ":", " ", "[", "\n">> }

OutputTexts == { NoFile, ReportText(<<CleanRecords[2]>>) }

CleanStores ==
    { [p \in CleanPaths |->
          IF p = CleanPathTable[1] THEN a
          ELSE IF p = CleanPathTable[2] THEN b ELSE c]
      : a \in CleanTexts, b \in OtherTexts, c \in OutputTexts }

\* What a user types at a prompt.
Answers ==
    { <<"y">>, <<" ", "Y">>, <<"y", "e", "s">>, <<>>, <<"n">>,
      <<"N", "o", " ">>, <<"y", "e">> }

InitClean ==
    /\ fs = [profile |-> [i \in 1..NumFiles |-> Silent], unlistable |-> {}]
    /\ store \in CleanStores
    /\ clock = 0
    /\ pc = "clean_idle"
    /\ call = NoCall
    /\ all_files = <<>>
    /\ index = 1
    /\ progressed = FALSE
    /\ silent_files = <<>>
    /\ trace = <<>>
    /\ report = PyNone
    /\ outcome = NoOutcome
    /\ written = <<>>
    /\ scans = 0
    /\ limit = 0
    /\ \E platform \in Platforms, exists \in SUBSET CleanFiles :
          clean = [cmd |-> "none", dry_run |-> FALSE, yes |-> FALSE,
                   platform |-> platform, exists |-> exists, before |-> exists,
                   listed |-> <<>>, answers |-> <<>>, queue |-> <<>>,
                   files |-> <<>>, i |-> 1, attempts |-> <<>>,
                   succeeded |-> <<>>, failed |-> <<>>]

\* How a command that stops before its loop ends.
StepOutcome(h) ==
    IF h.step = "raise" THEN [kind |-> "exception", exc |-> h.exc]
    ELSE IF h.step \in {"prompt", "recycle"} THEN NoOutcome
    ELSE [kind |-> h.step]

\* A command has run up to step h: its flags and what it listed are kept,
\* and it stands at the prompt, at its loop, or is over.
CleanEnter(cmd, h, dry_run, yes) ==
    /\ clean' = [clean EXCEPT !.cmd = cmd, !.dry_run = dry_run, !.yes = yes,
                              !.listed = h.files, !.files = h.files, !.i = 1,
                              !.queue = h.reports]
    /\ pc' = CASE h.step = "prompt"  -> "clean_prompt"
               [] h.step = "recycle" ->
                      IF cmd = "clean" THEN "clean_loop" ELSE "clean_report"
               [] OTHER              -> "clean_done"
    /\ outcome' = StepOutcome(h)

\* silentscan clean REPORT [--dry-run] [--yes]: click.Path(exists=True)
\* turns a missing REPORT down, then run_clean up to its loop.
CliClean(report_path, dry_run, yes) ==
    /\ pc = "clean_idle"
    /\ call' = [cmd |-> "clean", report |-> report_path,
                dry_run |-> dry_run, yes |-> yes]
    /\ IF store[report_path] = NoFile
       THEN CleanEnter("clean", [step |-> "usage_error", files |-> <<>>,
                                 reports |-> <<>>], dry_run, yes)
       ELSE CleanEnter("clean", run_clean(store, report_path, dry_run, yes),
                       dry_run, yes)
    /\ UNCHANGED << fs, store, clock, all_files, index, progressed, silent_files,
                    trace, report, written, scans, limit >>

\* silentscan clean-all [--dry-run] [--yes], up to its loop over the reports.
CliCleanAll(dry_run, yes) ==
    /\ pc = "clean_idle"
    /\ call' = [cmd |-> "clean-all", dry_run |-> dry_run, yes |-> yes]
    /\ CleanEnter("clean-all", clean_all(store, dry_run, yes), dry_run, yes)
    /\ UNCHANGED << fs, store, clock, all_files, index, progressed, silent_files,
                    trace, report, written, scans, limit >>

\* The user answers the prompt: _confirm for clean, click.confirm for
\* clean-all.
CleanAnswer(answer) ==
    /\ pc = "clean_prompt"
    /\ LET verdict == IF clean.cmd = "clean" THEN _confirm(answer)
                      ELSE click_confirm(answer)
       IN  /\ verdict = "again" => Len(clean.answers) < MaxPrompts
           /\ clean' = [clean EXCEPT !.answers = Append(@, answer)]
           /\ pc' = CASE verdict = "again" -> "clean_prompt"
                      [] verdict = "no"    -> "clean_done"
                      [] clean.cmd = "clean" -> "clean_loop"
                      [] OTHER             -> "clean_report"
           /\ outcome' = IF verdict = "no" THEN [kind |-> "aborted"] ELSE NoOutcome
    /\ UNCHANGED << fs, store, clock, call, all_files, index, progressed,
                    silent_files, trace, report, written, scans, limit >>

\* The input ends at the prompt: input() raises EOFError, click.confirm
\* raises Abort.
CleanEof ==
    /\ pc = "clean_prompt"
    /\ pc' = "clean_done"
    /\ outcome' = [kind |-> "exception",
                   exc  |-> IF clean.cmd = "clean" THEN "EOFError" ELSE "Abort"]
    /\ UNCHANGED << fs, store, clock, call, all_files, index, progressed,
                    silent_files, trace, report, written, scans, limit, clean >>

\* run_clean(report_path, dry_run=False, yes=True) has run up to step h.
CleanReportEnter(h) ==
    /\ clean' = [clean EXCEPT !.queue = Tail(@), !.files = h.files, !.i = 1,
                              !.succeeded = <<>>, !.failed = <<>>]
    /\ pc' = CASE h.step = "recycle" -> "clean_loop"
               [] h.step = "nothing" -> "clean_report"
               [] OTHER              -> "clean_done"
    /\ outcome' = StepOutcome(h)

\* One turn of the loop of clean_all: run_clean(report_path, dry_run=False,
\* yes=True) up to its own loop; after the last report the command is over.
CleanNextReport ==
    /\ pc = "clean_report"
    /\ IF clean.queue = <<>>
       THEN /\ pc' = "clean_done"
            /\ outcome' = [kind |-> "cleaned"]
            /\ UNCHANGED clean
       ELSE CleanReportEnter(run_clean(store, clean.queue[1], FALSE, TRUE))
    /\ UNCHANGED << fs, store, clock, call, all_files, index, progressed,
                    silent_files, trace, report, written, scans, limit >>

\* One turn of the recycling loop of run_clean; after the last file the
\* summary is printed and run_clean returns.
CleanRecycle(tool_ok) ==
    /\ pc = "clean_loop"
    /\ LET f         == clean.files[clean.i]
           file_path == RecPath(f)
           last      == clean.i = Len(clean.files)
       IN  /\ IF file_path \notin clean.exists
              THEN clean' = [clean EXCEPT !.failed = Append(@, f), !.i = @ + 1]
              ELSE IF _trash_file(clean.platform, tool_ok)
              THEN clean' = [clean EXCEPT !.attempts = Append(@, file_path),
                                          !.succeeded = Append(@, f),
                                          !.exists = @ \ {file_path},
                                          !.i = @ + 1]
              ELSE clean' = [clean EXCEPT !.attempts = Append(@, file_path),
                                          !.failed = Append(@, f),
                                          !.i = @ + 1]
           /\ pc' = IF ~last THEN "clean_loop"
                    ELSE IF clean.cmd = "clean" THEN "clean_done"
                    ELSE "clean_report"
           /\ outcome' = IF last /\ clean.cmd = "clean"
                         THEN [kind |-> "cleaned"] ELSE NoOutcome
    /\ UNCHANGED << fs, store, clock, call, all_files, index, progressed,
                    silent_files, trace, report, written, scans, limit >>

NextClean ==
    \/ \E report_path \in CleanPaths, dry_run \in BOOLEAN, yes \in BOOLEAN :
          CliClean(report_path, dry_run, yes)
    \/ \E dry_run \in BOOLEAN, yes \in BOOLEAN : CliCleanAll(dry_run, yes)
    \/ \E answer \in Answers : CleanAnswer(answer)
    \/ CleanEof
    \/ CleanNextReport
    \/ \E tool_ok \in BOOLEAN : CleanRecycle(tool_ok)

SpecClean == InitClean /\ [][NextClean]_vars

(***************************************************************************)
(* Properties of the clean commands, under SpecClean                       *)
(***************************************************************************)

\* The answers that say yes, as the user means them.
YesAnswers == { <<"y">>, <<" ", "Y">>, <<"y", "e", "s">> }

UserAnsweredYes ==
    clean.answers # <<>> /\ clean.answers[Len(clean.answers)] \in YesAnswers

ListedPaths == {RecPath(clean.listed[i]) : i \in 1..Len(clean.listed)}

\* C11: clean and clean-all hand a file to the recycle bin only if dry_run
\* is false and either yes was given or the user answered yes at the prompt:
\* in a dry run, and as long as a prompt has not been answered with a yes,
\* _trash_file has not been called and every file that existed still exists.
C11_TrashOnlyWhenConfirmed ==
    clean.cmd # "none" /\ (clean.dry_run \/ ~(clean.yes \/ UserAnsweredYes))
        => /\ clean.attempts = <<>>
           /\ clean.succeeded = <<>>
           /\ clean.exists = clean.before

\* A clean that listed files which exist, was asked again after an answer
\* that is neither yes nor no, and was then declined: nothing was trashed.
C11_Witness ==
    /\ pc = "clean_done"
    /\ outcome.kind = "aborted"
    /\ ~clean.dry_run /\ ~clean.yes
    /\ Len(clean.answers) = 2
    /\ clean.listed # <<>>
    /\ ListedPaths \subseteq clean.exists
    /\ clean.attempts = <<>>

\* A dry run of clean-all over reports that list existing files.
C11_WitnessDryRun ==
    /\ pc = "clean_done"
    /\ clean.cmd = "clean-all" /\ clean.dry_run /\ clean.yes
    /\ Len(clean.listed) = 3
    /\ ListedPaths \subseteq clean.exists
    /\ clean.attempts = <<>>

\* The other side: a confirmed clean does recycle.
C11_ConfirmedCleanRecycles ==
    /\ pc = "clean_done"
    /\ outcome.kind = "cleaned"
    /\ ~clean.yes /\ UserAnsweredYes
    /\ clean.attempts # <<>>
    /\ clean.exists # clean.before

====
